---- MODULE Spec2Model ----
(***************************************************************************)
(* Syllogism quiz generator: the single-answer generator of the reusable   *)
(* component (src/components/QuizGenerator.ts), the single-answer          *)
(* generator of the /api/quiz route (src/pages/api/quiz.ts) and the        *)
(* multi-answer generator of the /api/multi-quiz route.                    *)
(*                                                                         *)
(* Sentences are sequences of tokens; String.replace(placeholder, term)    *)
(* replaces the first occurrence of the placeholder token.                 *)
(***************************************************************************)
EXTENDS Integers, Sequences, FiniteSets, TLC

VARIABLES
  pc,              \* "idle", "requested", "sampling" (the do-while loop),
                   \* "building" (after the loop), "done"
  op,              \* the generator asked for: "component", "route", "multi"
  param,           \* url.searchParams.get("lang"): <<>> for null, <<s>> for the
                   \* string s; read once, by the GET handler
  lang,            \* the language the generator runs with
  status,          \* HTTP status of the response (0: none yet)
  item,            \* the template drawn last
  termMap,         \* X, Y, Z -> vocabulary term
  chosen,          \* single-answer: the conclusion drawn from item.correct
  correctAnswers,  \* multi-answer: expandCorrectAnswers(item)
  possibleAnswers, \* multi-answer: the labelled candidate pool
  baseSentences,   \* response: the two rendered premises
  answers,         \* response: the answers, {sentence, isCorrect}
  answerKeys,      \* for each answer, the (type, subject, object) it renders
  repaired,        \* multi-answer: the repair branch ran
  attempts,        \* multi-answer: rejected draws while in the loop (capped)
  interp, premise, derived,  \* set semantics of the derivation rules
  library,         \* which template library quizData.data is
  absent,          \* the <<language, kind>> sentence patterns the tables lack
  rnd,             \* the random source the shuffles read
  vocabulary,      \* termsMap of the module: language -> its array of terms
  ui, key, translated        \* i18n/utils.ts: tables, looked-up key, result

\* what a process is configured with: it does not change while it serves
config == <<library, absent, rnd>>
i18n == <<ui, key, translated>>

vars == <<pc, op, param, lang, status, item, termMap, chosen, correctAnswers,
          possibleAnswers, baseSentences, answers, answerKeys,
          repaired, attempts, interp, premise, derived, config, vocabulary, i18n>>

(***************************************************************************)
(* Bounds of the model.                                                    *)
(***************************************************************************)
\* Math.random() inside the shuffles of the multi-answer generator is
\* quantised to the values 0/RandLevels .. (RandLevels-1)/RandLevels.
RandLevels == 3
\* Invalid draws of the rejection-sampling loop that are counted.
MaxAttempts == 1
\* Size of the universe the set interpretations of X, Y, Z range over.
UniverseSize == 2
\* Longest key, in parts, that is looked up in the localisation tables.
MaxKeyLen == 2

(***************************************************************************)
(* Types.                                                                  *)
(***************************************************************************)
Variables == {"X", "Y", "Z"}
VarOrder == <<"X", "Y", "Z">>
allTypes == <<"all", "none", "some", "some_none", "unknown">>
StatementTypes == {"all", "none", "some", "some_none"}
QuantifierTypes == {"all", "none", "some", "some_none", "unknown"}
Languages == {"de", "en"}

Stmt(t, s, o) == [type |-> t, subject |-> s, object |-> o]

NoConclusion == Stmt("-", "-", "-")
NoItem == [statements |-> <<>>, correct |-> <<>>]
NoTermMap == [v \in Variables |-> "-"]
\* JavaScript's undefined, as an entry of an answers array
Undefined == [type |-> "undefined", subject |-> "-", object |-> "-",
              sentence |-> <<>>, isCorrect |-> FALSE]

Range(seq) == {seq[i] : i \in 1..Len(seq)}

(***************************************************************************)
(* Localisation data (i18n/en.json, i18n/de.json).                         *)
(***************************************************************************)
termsMap ==
  [en |-> <<"cats", "dogs", "birds">>,
   de |-> <<"Katzen", "Hunde", "Voegel">>]

templates ==
  [en |-> [all       |-> <<"All", "{sub}", "are", "{obj}">>,
           none      |-> <<"No", "{sub}", "are", "{obj}">>,
           some      |-> <<"Some", "{sub}", "are", "{obj}">>,
           some_none |-> <<"Some", "{sub}", "are", "not", "{obj}">>,
           unknown   |-> <<"Nothing", "follows", "for", "{sub}", "and", "{obj}">>],
   de |-> [all       |-> <<"Alle", "{sub}", "sind", "{obj}">>,
           none      |-> <<"Keine", "{sub}", "sind", "{obj}">>,
           some      |-> <<"Einige", "{sub}", "sind", "{obj}">>,
           some_none |-> <<"Einige", "{sub}", "sind", "nicht", "{obj}">>,
           unknown   |-> <<"Keine", "Aussage", "zu", "{sub}", "und", "{obj}">>]]

\* Language files in which a term occurs more than once
RepeatedTerms ==
  { [l \in Languages |-> v] :
      v \in {<<"cats", "cats", "birds">>, <<"cats", "dogs", "cats">>,
             <<"cats", "cats", "cats">>} }

(***************************************************************************)
(* Template library (data/quiz-templates.json): every template the         *)
(* library tests admit on the three premise layouts.                       *)
(***************************************************************************)
\* variant: a fourth layout, the chain read from its second premise
LayoutsFourth ==
  { <<<<"X", "Y">>, <<"Y", "Z">>>>,
    <<<<"X", "Y">>, <<"X", "Z">>>>,
    <<<<"Y", "X">>, <<"Z", "X">>>>,
    <<<<"X", "Y">>, <<"Z", "X">>>> }

Layouts ==
  { <<<<"X", "Y">>, <<"Y", "Z">>>>,    \* chain
    <<<<"X", "Y">>, <<"X", "Z">>>>,    \* common subject
    <<<<"Y", "X">>, <<"Z", "X">>>> }   \* common object

\* Golden rules 1-5 of the library tests: conclusion kinds a premise-kind
\* pair admits.
AllowedKinds(k1, k2) ==
  LET ks == {k1, k2}
      r12 == IF (k1 = "some" /\ k2 = "some") \/ (k1 = "none" /\ k2 = "none")
             THEN {"unknown"} ELSE QuantifierTypes
      r3 == IF "none" \notin ks THEN QuantifierTypes \ {"none"} ELSE QuantifierTypes
      r4 == IF "none" \in ks \/ "some_none" \in ks
            THEN {"none", "some_none", "unknown"} ELSE QuantifierTypes
      r5 == IF "some" \in ks \/ "some_none" \in ks
            THEN {"some", "some_none", "unknown"} ELSE QuantifierTypes
  IN r12 \cap r3 \cap r4 \cap r5

Before(v, w) == \E i, j \in 1..Len(VarOrder) : i <= j /\ VarOrder[i] = v /\ VarOrder[j] = w

\* The two variables that occur in exactly one premise
EndTerms(lay) == {v \in Variables : ~(v \in Range(lay[1]) /\ v \in Range(lay[2]))}

CorrectLists(lay, k1, k2) ==
  LET ends == EndTerms(lay)
      cs == {c \in {Stmt(k, s, o) : k \in AllowedKinds(k1, k2),
                                     s \in ends, o \in ends} :
               c.subject # c.object}
      first == CHOOSE v \in ends : \A w \in ends : Before(v, w)
  IN {<<c>> : c \in {d \in cs : d.type # "unknown"}}
     \cup {<<c, Stmt(c.type, c.object, c.subject)>> :
              c \in {d \in cs : d.subject = first}}

quizData ==
  UNION { { [statements |-> <<Stmt(k1, lay[1][1], lay[1][2]),
                              Stmt(k2, lay[2][1], lay[2][2])>>,
             correct |-> cl] : cl \in CorrectLists(lay, k1, k2) }
          : lay \in Layouts, k1 \in StatementTypes, k2 \in StatementTypes }

\* Templates named by the specification's examples, and two whose expansion
\* is all unknown
Barbara == [statements |-> <<Stmt("all", "X", "Y"), Stmt("all", "Y", "Z")>>,
            correct |-> <<Stmt("all", "X", "Z")>>]
Ferio == [statements |-> <<Stmt("some", "X", "Y"), Stmt("none", "Y", "Z")>>,
          correct |-> <<Stmt("some_none", "X", "Z")>>]
Converging == [statements |-> <<Stmt("all", "Y", "X"), Stmt("all", "Z", "X")>>,
               correct |-> <<Stmt("unknown", "Y", "Z"), Stmt("unknown", "Z", "Y")>>]
SomeNotChain == [statements |-> <<Stmt("some_none", "X", "Y"), Stmt("some_none", "Y", "Z")>>,
                 correct |-> <<Stmt("unknown", "X", "Z"), Stmt("unknown", "Z", "X")>>]
SomeNotFork == [statements |-> <<Stmt("some_none", "X", "Y"), Stmt("some_none", "X", "Z")>>,
                correct |-> <<Stmt("unknown", "Y", "Z"), Stmt("unknown", "Z", "Y")>>]

\* quizData.data for each library a process may be started with: the shipped
\* one, and smaller ones down to the empty library
SmallLibraries == {"empty", "trivial", "converging", "small"}

data(lib) ==
  CASE lib = "full" -> quizData
    [] lib = "empty" -> {}
    [] lib = "trivial" -> {SomeNotChain, SomeNotFork}
    [] lib = "converging" -> {Converging}
    [] OTHER -> {Barbara, Ferio, SomeNotChain}

\* templates[lang] of a translation file that lacks the patterns in abs
table(l, abs) ==
  [k \in {q \in QuantifierTypes : <<l, q>> \notin abs} |-> templates[l][k]]

Patterns == {<<l, k>> : l \in Languages, k \in QuantifierTypes}

(***************************************************************************)
(* Random source.                                                          *)
(***************************************************************************)
\* All draw vectors of one Fisher-Yates run over n elements: js[i] is the
\* value of Math.floor(Math.random() * (i + 1)) at loop index i.
AllDraws(n) == {js \in [1..(n - 1) -> 0..(n - 1)] : \A i \in 1..(n - 1) : js[i] <= i}

\* Draw vectors of a quantised source that alternates between two values
\* r1/RandLevels and r2/RandLevels; the loop runs i = n-1 down to 1.
StreamDraw(n, r1, r2) ==
  [i \in 1..(n - 1) |->
     ((IF (n - 1 - i) % 2 = 0 THEN r1 ELSE r2) * (i + 1)) \div RandLevels]

StreamDraws(n) ==
  { StreamDraw(n, r1, r2) : r1 \in 0..(RandLevels - 1), r2 \in 0..(RandLevels - 1) }

\* Math.random() as a process sees it: free (any value at every call), or a
\* given source that fixes what the shuffles read
Free == [free |-> TRUE, terms |-> <<0, 0>>, r1 |-> 0, r2 |-> 0]

Sources ==
  { [free |-> FALSE, terms |-> jt, r1 |-> a, r2 |-> b] :
      jt \in AllDraws(3), a \in 0..(RandLevels - 1), b \in 0..(RandLevels - 1) }

\* the draw vectors the source r allows a shuffle of n elements
termDraws(r, n) == IF r.free THEN AllDraws(n) ELSE {r.terms}
answerDraws(r, n) == IF r.free THEN StreamDraws(n) ELSE {StreamDraw(n, r.r1, r.r2)}

Swap(a, p, q) == [a EXCEPT ![p] = a[q], ![q] = a[p]]

RECURSIVE FisherYates(_, _, _)
\* the loop "for (i = length - 1; i > 0; i--)" with 0-based index i
FisherYates(a, i, js) ==
  IF i < 1 THEN a ELSE FisherYates(Swap(a, i + 1, js[i] + 1), i - 1, js)

\* shuffle of the component: shuffles its argument in place and returns it
shuffleInPlace(array, js) ==
  LET s == FisherYates(array, Len(array) - 1, js)
  IN [array |-> s, result |-> s]

\* shuffle of the two routes: shuffles a copy, the argument is untouched
shuffleCopy(array, js) ==
  [array |-> array, result |-> FisherYates(array, Len(array) - 1, js)]

\* variant: no copy is made, the name refers to the array itself
spreadAlias(array) == [alias |-> TRUE, elems |-> array]

\* [...array]: a new array that holds the elements of array
spread(array) == [alias |-> FALSE, elems |-> array]

\* the module's tables after the array that ref names has become now: they
\* change when ref is the module's own array of the language
written(tables, l, ref, now) == IF ref.alias THEN [tables EXCEPT ![l] = now] ELSE tables

\* getRandomElement: the elements arr[Math.floor(Math.random() * length)]
getRandomElement(arr) == Range(arr)

(***************************************************************************)
(* Term substitution.                                                      *)
(***************************************************************************)
RECURSIVE IndexOf(_, _, _)
IndexOf(seq, tok, i) ==
  IF i > Len(seq) THEN 0
  ELSE IF seq[i] = tok THEN i ELSE IndexOf(seq, tok, i + 1)

\* String.prototype.replace(pattern, replacement): first occurrence only
replace(seq, tok, term) ==
  LET p == IndexOf(seq, tok, 1)
  IN IF p = 0 THEN seq ELSE [seq EXCEPT ![p] = term]

render(t, type, subj, obj) == replace(replace(t[type], "{sub}", subj), "{obj}", obj)

\* t[type] is undefined for a pattern the table lacks, and undefined.replace
\* throws a TypeError
throwsOn(t, kinds) == \E k \in kinds : k \notin DOMAIN t

premiseKinds(it) == {it.statements[i].type : i \in 1..Len(it.statements)}

\* variant: Z takes terms[1] as Y does
mkTermMapRepeat(terms) == [v \in Variables |-> IF v = "X" THEN terms[1] ELSE terms[2]]

\* termMap = {X: terms[0], Y: terms[1], Z: terms[2]}
mkTermMap(terms) == [v \in Variables |->
                       IF v = "X" THEN terms[1] ELSE IF v = "Y" THEN terms[2] ELSE terms[3]]

mkBaseSentences(t, it, tm) ==
  [i \in 1..Len(it.statements) |->
     render(t, it.statements[i].type, tm[it.statements[i].subject],
            tm[it.statements[i].object])]

(***************************************************************************)
(* Entailment expander (multi-quiz route).                                 *)
(***************************************************************************)
\* variant: the "all" rule pushes only Some(A,B), not its converse
contributionNoConverse(stmt) ==
  (IF stmt.type = "all"
     THEN <<Stmt("some", stmt.subject, stmt.object)>> ELSE <<>>)
  \o (IF stmt.type = "some"
        THEN <<Stmt("some", stmt.object, stmt.subject)>> ELSE <<>>)
  \o (IF stmt.type = "none"
        THEN <<Stmt("none", stmt.object, stmt.subject)>> ELSE <<>>)

\* variant: the "all" rule also converts All(A,B) to All(B,A)
contributionConverseAll(stmt) ==
  (IF stmt.type = "all"
     THEN <<Stmt("some", stmt.subject, stmt.object),
            Stmt("all", stmt.object, stmt.subject)>>
     ELSE <<>>)
  \o (IF stmt.type = "some"
        THEN <<Stmt("some", stmt.object, stmt.subject)>> ELSE <<>>)
  \o (IF stmt.type = "none"
        THEN <<Stmt("none", stmt.object, stmt.subject)>> ELSE <<>>)

\* the conclusions one premise pushes onto "derived"
contribution(stmt) ==
  (IF stmt.type = "all"
     THEN <<Stmt("some", stmt.subject, stmt.object),
            Stmt("some", stmt.object, stmt.subject)>>
     ELSE <<>>)
  \o (IF stmt.type = "some"
        THEN <<Stmt("some", stmt.object, stmt.subject)>> ELSE <<>>)
  \o (IF stmt.type = "none"
        THEN <<Stmt("none", stmt.object, stmt.subject)>> ELSE <<>>)

RECURSIVE pushAll(_, _, _)
\* "for (const stmt of item.statements)" appending each contribution
pushAll(acc, stmts, i) ==
  IF i > Len(stmts) THEN acc
  ELSE pushAll(acc \o contribution(stmts[i]), stmts, i + 1)

\* variant: no de-duplication, every pushed entry is returned
uniqueByKeyKeepAll(seq, i, acc) == seq

RECURSIVE uniqueByKey(_, _, _)
\* the Map keyed by `${type}:${subject}->${object}`: one entry per key, in
\* the order the keys were first set
uniqueByKey(seq, i, acc) ==
  IF i > Len(seq) THEN acc
  ELSE uniqueByKey(seq, i + 1,
                   IF seq[i] \in Range(acc) THEN acc ELSE Append(acc, seq[i]))

\* variant: looks at the canonical list instead of the expansion
isValidCanonical(it) ==
  Len(it.correct) > 0 /\ ~(\A i \in 1..Len(it.correct) : it.correct[i].type = "unknown")

\* variant: only the length test
isValidNonEmpty(it) == Len(it.correct \o it.statements) > 0

\* variant: every entry of the expansion has to be other than unknown
isValidEvery(it) ==
  LET expanded == uniqueByKey(pushAll(it.correct, it.statements, 1), 1, <<>>)
  IN Len(expanded) > 0 /\ \A i \in 1..Len(expanded) : expanded[i].type # "unknown"

expandCorrectAnswers(it) ==
  uniqueByKey(pushAll(it.correct, it.statements, 1), 1, <<>>)

isValid(it) ==
  LET expanded == expandCorrectAnswers(it)
  IN Len(expanded) > 0 /\ ~(\A i \in 1..Len(expanded) : expanded[i].type = "unknown")

(***************************************************************************)
(* Single-answer generation.                                               *)
(***************************************************************************)
\* variant: the sentence is rendered with subject and object exchanged
singleAnswersExchanged(t, correct, tm) ==
  [i \in 1..Len(allTypes) |->
     [type |-> allTypes[i],
      sentence |-> render(t, allTypes[i], tm[correct.object], tm[correct.subject]),
      isCorrect |-> (allTypes[i] = correct.type)]]

\* variant: the unknown answer is never marked correct
singleAnswersNeverUnknown(t, correct, tm) ==
  [i \in 1..Len(allTypes) |->
     [type |-> allTypes[i],
      sentence |-> render(t, allTypes[i], tm[correct.subject], tm[correct.object]),
      isCorrect |-> (allTypes[i] = correct.type /\ allTypes[i] # "unknown")]]

\* allTypes.map(type => ({type, sentence, isCorrect: type === correct.type}))
singleAnswers(t, correct, tm) ==
  [i \in 1..Len(allTypes) |->
     [type |-> allTypes[i],
      sentence |-> render(t, allTypes[i], tm[correct.subject], tm[correct.object]),
      isCorrect |-> (allTypes[i] = correct.type)]]

\* variant: the unknown answer is put in front
finalSingleUnknownFirst(all, others) ==
  SelectSeq(all, LAMBDA a : a.type = "unknown") \o others

\* unknownAnswer ? [...otherAnswers, unknownAnswer] : otherAnswers
finalSingle(all, others) ==
  LET unk == SelectSeq(all, LAMBDA a : a.type = "unknown")
  IN IF Len(unk) > 0 THEN Append(others, unk[1]) ELSE others

stripped(fin) == [i \in 1..Len(fin) |->
                    [sentence |-> fin[i].sentence, isCorrect |-> fin[i].isCorrect]]

keysOf(fin, correct) == [i \in 1..Len(fin) |->
                           Stmt(fin[i].type, correct.subject, correct.object)]

\* the element of a set of one element: { e(v) : v \in {d} } is e computed
\* for the value of d
only(S) == CHOOSE x \in S : TRUE

\* what a generator hands back, and what the model records of it
quizOf(t, it, correct, tm, fin) ==
  [termMap |-> tm,
   response |-> [baseSentences |-> mkBaseSentences(t, it, tm), answers |-> stripped(fin)],
   answerKeys |-> keysOf(fin, correct)]

\* generateQuiz of components/QuizGenerator.ts for the template and the
\* conclusion it draws; array is [...termsMap[lang]], jt and ja drive its
\* two shuffles
componentGenerateQuiz(t, array, it, correct, jt, ja) ==
  only({ only({ only({ only({ quizOf(t, it, correct, tm, fin)
    : fin \in {finalSingle(all, others)} })
    : others \in {shuffleInPlace(SelectSeq(all, LAMBDA a : a.type # "unknown"), ja).result} })
    : all \in {singleAnswers(t, correct, tm)} })
    : tm \in {mkTermMap(shuffleInPlace(array, jt).array)} })

\* generateQuiz of pages/api/quiz.ts, likewise
routeGenerateQuiz(t, array, it, correct, jt, ja) ==
  only({ only({ only({ only({ quizOf(t, it, correct, tm, fin)
    : fin \in {finalSingle(all, others)} })
    : others \in {shuffleCopy(SelectSeq(all, LAMBDA a : a.type # "unknown"), ja).result} })
    : all \in {singleAnswers(t, correct, tm)} })
    : tm \in {mkTermMap(shuffleCopy(array, jt).array)} })

(***************************************************************************)
(* Multi-answer generation.                                                *)
(***************************************************************************)
\* baseKeys: the keys `${type}:${subject}->${object}` of the two premises
baseKeysOf(it) ==
  {Stmt(it.statements[i].type, it.statements[i].subject, it.statements[i].object)
     : i \in 1..Len(it.statements)}

\* variant: no baseKeys test
candidatesOfAll(type, baseKeys) ==
  LET pairs == [k \in 1..9 |-> <<VarOrder[((k - 1) \div 3) + 1], VarOrder[((k - 1) % 3) + 1]>>]
      kept == SelectSeq(pairs, LAMBDA q : q[1] # q[2])
  IN [k \in 1..Len(kept) |-> Stmt(type, kept[k][1], kept[k][2])]

\* the nested loops "for s of [X,Y,Z] for o of [X,Y,Z]" for one type
candidatesOf(type, baseKeys) ==
  LET pairs == [k \in 1..9 |-> <<VarOrder[((k - 1) \div 3) + 1], VarOrder[((k - 1) % 3) + 1]>>]
      kept == SelectSeq(pairs, LAMBDA q : q[1] # q[2] /\ Stmt(type, q[1], q[2]) \notin baseKeys)
  IN [k \in 1..Len(kept) |-> Stmt(type, kept[k][1], kept[k][2])]

\* variant: the reversed match is accepted for every type
isCorrectCandidateSymmetric(c, expansion) ==
  \E k \in 1..Len(expansion) :
    LET correct == expansion[k]
    IN /\ correct.type = c.type
       /\ \/ (correct.subject = c.subject /\ correct.object = c.object)
          \/ (correct.subject = c.object /\ correct.object = c.subject)

\* correctAnswers.some(correct => ...)
isCorrectCandidate(c, expansion) ==
  \E k \in 1..Len(expansion) :
    LET correct == expansion[k]
    IN /\ correct.type = c.type
       /\ \/ (correct.subject = c.subject /\ correct.object = c.object)
          \/ (correct.subject = c.object /\ correct.object = c.subject
              /\ correct.type = "some")

labelCandidates(cands, t, tm, expansion) ==
  [k \in 1..Len(cands) |->
     [type |-> cands[k].type, subject |-> cands[k].subject, object |-> cands[k].object,
      sentence |-> render(t, cands[k].type, tm[cands[k].subject], tm[cands[k].object]),
      isCorrect |-> isCorrectCandidate(cands[k], expansion)]]

RECURSIVE flatMapTypes(_, _, _, _, _)
\* allTypes.flatMap(type => type === "unknown" ? [] : candidates.map(...))
flatMapTypes(i, it, t, tm, expansion) ==
  IF i > Len(allTypes) THEN <<>>
  ELSE (IF allTypes[i] = "unknown" THEN <<>>
        ELSE labelCandidates(candidatesOf(allTypes[i], baseKeysOf(it)), t, tm, expansion))
       \o flatMapTypes(i + 1, it, t, tm, expansion)

mkPossibleAnswers(it, t, tm, expansion) == flatMapTypes(1, it, t, tm, expansion)

\* variant: no filter, every shuffled candidate is kept
dedupeBySentenceKeepAll(arr, i, acc) == arr

RECURSIVE dedupeBySentence(_, _, _)
\* filter((a, i, arr) => arr.findIndex(b => b.sentence === a.sentence) === i)
dedupeBySentence(arr, i, acc) ==
  IF i > Len(arr) THEN acc
  ELSE dedupeBySentence(arr, i + 1,
         IF \E k \in 1..(i - 1) : arr[k].sentence = arr[i].sentence
           THEN acc ELSE Append(acc, arr[i]))

\* answers.slice(0, 6)
slice6(arr) == SubSeq(arr, 1, IF Len(arr) < 6 THEN Len(arr) ELSE 6)

hasCorrect(arr) == \E k \in 1..Len(arr) : arr[k].isCorrect

\* variant: the correct candidates are looked for in finalAnswers
repairFromFinal(ans, finalAnswers, js2, js3) ==
  LET correct == shuffleCopy(SelectSeq(finalAnswers, LAMBDA a : a.isCorrect), js2).result
      popped == SubSeq(finalAnswers, 1, Len(finalAnswers) - 1)
      pushed == Append(popped, IF Len(correct) > 0 THEN correct[1] ELSE Undefined)
  IN shuffleCopy(pushed, js3).array

\* variant: the last answer is not popped before the push
repairNoPop(ans, finalAnswers, js2, js3) ==
  LET correct == shuffleCopy(SelectSeq(ans, LAMBDA a : a.isCorrect), js2).result
  IN Append(finalAnswers, IF Len(correct) > 0 THEN correct[1] ELSE Undefined)

\* the block under "Ensure at least one correct in final set";
\* js2 drives shuffle(answers.filter(isCorrect)), js3 drives shuffle(finalAnswers)
repair(ans, finalAnswers, js2, js3) ==
  LET correct == shuffleCopy(SelectSeq(ans, LAMBDA a : a.isCorrect), js2).result
      popped == SubSeq(finalAnswers, 1, Len(finalAnswers) - 1)
      pushed == Append(popped, IF Len(correct) > 0 THEN correct[1] ELSE Undefined)
  IN shuffleCopy(pushed, js3).array

(***************************************************************************)
(* Localisation lookup (i18n/utils.ts).  A table is given by the kind of   *)
(* value found at each path of keys; the root, at the empty path, is the   *)
(* object imported from the language's JSON file.  A string is named by    *)
(* the table and path it is stored at, so all strings are different.       *)
(***************************************************************************)
defaultLang == "en"

Parts == {"a", "b"}
Paths == {<<>>, <<"a">>, <<"b">>, <<"a", "b">>}
ValueKinds == {"undefined", "object", "string", "number"}

kindAt(T, p) == IF p \in DOMAIN T THEN T[p] ELSE "undefined"

Parent(p) == SubSeq(p, 1, Len(p) - 1)

\* every table a JSON file can hold on these paths: a value has a parent
\* object
Tables ==
  { T \in [Paths -> ValueKinds] :
      /\ T[<<>>] = "object"
      /\ \A p \in Paths \ {<<>>} : T[p] # "undefined" => T[Parent(p)] = "object" }

NoTable == [p \in Paths |-> IF p = <<>> THEN "object" ELSE "undefined"]
NoTables == [l \in Languages |-> NoTable]

\* key.split(".") for the keys of at most n parts
Keys(n) == UNION { [1..m -> Parts] : m \in 1..n }

\* what t(key) returns: the string stored in a table (from = its language),
\* or the key itself (from = "key")
StringOf(l, p) == [from |-> l, path |-> p]
KeyItself(k) == [from |-> "key", path |-> k]
NoResult == [from |-> "-", path |-> <<>>]

\* value && typeof value === "object" && part in value
hasPart(T, p, part) == kindAt(T, p) = "object" /\ kindAt(T, Append(p, part)) # "undefined"

RECURSIVE walk(_, _, _, _)
\* "for (const part of parts)" from the i-th part on, value being the value
\* at path p: the path reached, and whether every part was found
walk(T, parts, i, p) ==
  IF i > Len(parts) THEN [found |-> TRUE, at |-> p]
  ELSE IF hasPart(T, p, parts[i]) THEN walk(T, parts, i + 1, Append(p, parts[i]))
  ELSE [found |-> FALSE, at |-> p]

\* variant: a missing part returns the key at once, without the default table
useTranslationsNoDefault(u, l, k) ==
  LET own == walk(u[l], k, 1, <<>>)
  IN IF own.found /\ kindAt(u[l], own.at) = "string" THEN StringOf(l, own.at)
     ELSE KeyItself(k)

\* useTranslations(l)(k) over the tables u
useTranslations(u, l, k) ==
  LET own == walk(u[l], k, 1, <<>>)
      def == walk(u[defaultLang], k, 1, <<>>)
  IN IF own.found
       THEN IF kindAt(u[l], own.at) = "string" THEN StringOf(l, own.at) ELSE KeyItself(k)
     ELSE IF def.found
       THEN IF kindAt(u[defaultLang], def.at) = "string"
              THEN StringOf(defaultLang, def.at) ELSE KeyItself(k)
     ELSE KeyItself(k)

(***************************************************************************)
(* Initial state: no request in progress, no response yet.                 *)
(***************************************************************************)
NoParam == <<>>

\* lang parameters of a request: none, the empty string, the configured
\* codes and a code that is not configured
Params == {NoParam, <<"">>, <<"de">>, <<"en">>, <<"fr">>}

Idle ==
  /\ pc = "idle" /\ op = "none" /\ param = NoParam /\ lang = "en" /\ status = 0
  /\ item = NoItem /\ termMap = NoTermMap /\ chosen = NoConclusion
  /\ correctAnswers = <<>> /\ possibleAnswers = <<>>
  /\ baseSentences = <<>> /\ answers = <<>> /\ answerKeys = <<>>
  /\ repaired = FALSE /\ attempts = 0

NoSemantics ==
  /\ interp = [v \in Variables |-> {}]
  /\ premise = NoConclusion
  /\ derived = <<>>

NoLookup == ui = NoTables /\ key = <<>> /\ translated = NoResult

\* the shipped data files and Math.random
Shipped == library = "full" /\ absent = {} /\ rnd = Free

\* the module has imported the language files
Loaded == vocabulary = termsMap

Init == Idle /\ Loaded /\ NoSemantics /\ NoLookup /\ Shipped

\* a page renders the component for one of its languages
Render ==
  /\ pc = "idle"
  /\ \E l \in Languages : lang' = l
  /\ op' = "component" /\ pc' = "requested"
  /\ UNCHANGED <<param, status, item, termMap, chosen, correctAnswers, possibleAnswers,
                 baseSentences, answers, answerKeys, repaired, attempts,
                 interp, premise, derived, config, vocabulary, i18n>>

\* a client GETs one of the two routes
Request ==
  /\ pc = "idle"
  /\ \E o \in {"route", "multi"}, p \in Params : op' = o /\ param' = p
  /\ pc' = "received"
  /\ UNCHANGED <<lang, status, item, termMap, chosen, correctAnswers, possibleAnswers,
                 baseSentences, answers, answerKeys, repaired, attempts,
                 interp, premise, derived, config, vocabulary, i18n>>

\* url.searchParams.get("lang") || "en": null and "" are falsy
orElse(p, d) == IF p = NoParam \/ p = <<"">> THEN d ELSE p[1]

\* GET of either route up to the call of its generator; the parameter is
\* not read again after the validation
GET ==
  /\ pc = "received"
  /\ \E l \in {orElse(param, "en")} :
       /\ lang' = l
       /\ IF l \notin {"de", "en"}
            THEN status' = 400 /\ pc' = "done" /\ param' = param
            ELSE status' = status /\ pc' = "requested" /\ param' = NoParam
  /\ UNCHANGED <<op, item, termMap, chosen, correctAnswers, possibleAnswers,
                 baseSentences, answers, answerKeys, repaired, attempts,
                 interp, premise, derived, config, vocabulary, i18n>>

\* generateQuiz of components/QuizGenerator.ts; an exception it throws
\* reaches the page, which answers 500
GenerateQuizComponent ==
  /\ pc = "requested" /\ op = "component"
  \* const terms = [...termsMap[lang]]; shuffle(terms);
  /\ \E jt \in termDraws(rnd, Len(vocabulary[lang])) :
     \E ref \in {spread(vocabulary[lang])} :
     \E terms \in {shuffleInPlace(ref.elems, jt).array} :
       /\ vocabulary' = written(vocabulary, lang, ref, terms)
       /\ IF data(library) = {}
            THEN \* item is undefined: item.statements throws
                 /\ status' = 500
                 /\ UNCHANGED <<item, termMap, chosen, baseSentences, answers, answerKeys>>
            ELSE \E it \in data(library), t \in {table(lang, absent)} :
                   IF throwsOn(t, premiseKinds(it) \cup Range(allTypes))
                     THEN /\ status' = 500
                          /\ UNCHANGED <<item, termMap, chosen, baseSentences, answers,
                                         answerKeys>>
                     ELSE /\ item' = it /\ status' = 200
                          /\ \E correct \in getRandomElement(it.correct) :
                             \E ja \in answerDraws(rnd, Len(allTypes) - 1) :
                             \E quiz \in {componentGenerateQuiz(t, ref.elems, it, correct,
                                                               jt, ja)} :
                               /\ termMap' = quiz.termMap /\ chosen' = correct
                               /\ baseSentences' = quiz.response.baseSentences
                               /\ answers' = quiz.response.answers
                               /\ answerKeys' = quiz.answerKeys
  /\ pc' = "done"
  /\ UNCHANGED <<op, param, lang, correctAnswers, possibleAnswers, repaired, attempts,
                 interp, premise, derived, config, i18n>>

\* generateQuiz of pages/api/quiz.ts, and the catch block of its GET
GenerateQuizRoute ==
  /\ pc = "requested" /\ op = "route"
  \* const terms = [...termsMap[lang]]; shuffle(terms);
  /\ \E jt \in termDraws(rnd, Len(vocabulary[lang])) :
     \E ref \in {spread(vocabulary[lang])} :
     \E terms \in {shuffleCopy(ref.elems, jt).array} :
       /\ vocabulary' = written(vocabulary, lang, ref, terms)
       /\ IF data(library) = {}
            THEN \* item is undefined: item.statements throws
                 /\ status' = 500
                 /\ UNCHANGED <<item, termMap, chosen, baseSentences, answers, answerKeys>>
            ELSE \E it \in data(library), t \in {table(lang, absent)} :
                   IF throwsOn(t, premiseKinds(it) \cup Range(allTypes))
                     THEN /\ status' = 500
                          /\ UNCHANGED <<item, termMap, chosen, baseSentences, answers,
                                         answerKeys>>
                     ELSE /\ item' = it /\ status' = 200
                          /\ \E correct \in getRandomElement(it.correct) :
                             \E ja \in answerDraws(rnd, Len(allTypes) - 1) :
                             \E quiz \in {routeGenerateQuiz(t, ref.elems, it, correct,
                                                               jt, ja)} :
                               /\ termMap' = quiz.termMap /\ chosen' = correct
                               /\ baseSentences' = quiz.response.baseSentences
                               /\ answers' = quiz.response.answers
                               /\ answerKeys' = quiz.answerKeys
  /\ pc' = "done"
  /\ UNCHANGED <<op, param, lang, correctAnswers, possibleAnswers, repaired, attempts,
                 interp, premise, derived, config, i18n>>

\* generateMultiQuiz up to the do-while loop: the term assignment
MultiStart ==
  /\ pc = "requested" /\ op = "multi"
  \* const terms = shuffle([...termsMap[lang]]);
  /\ \E jt \in termDraws(rnd, Len(vocabulary[lang])) :
     \E ref \in {spread(vocabulary[lang])} :
     \E sh \in {shuffleCopy(ref.elems, jt)} :
       /\ termMap' = mkTermMap(sh.result)
       /\ vocabulary' = written(vocabulary, lang, ref, sh.array)
  /\ pc' = "sampling"
  /\ UNCHANGED <<op, param, lang, status, item, chosen, correctAnswers, possibleAnswers,
                 baseSentences, answers, answerKeys, repaired, attempts,
                 interp, premise, derived, config, i18n>>

\* one iteration of the do-while loop: draw a template; leave the loop when
\* isValid accepts it.  The loop has no counter: attempts counts the
\* rejected draws up to MaxAttempts and stays there.
MultiDraw ==
  /\ pc = "sampling"
  /\ IF data(library) = {}
       THEN \* item is undefined: item.correct throws inside isValid
            /\ status' = 500 /\ pc' = "done"
            /\ UNCHANGED <<item, attempts>>
       ELSE \E it \in data(library) :
              /\ item' = it
              /\ status' = status
              /\ IF isValid(it)
                   THEN pc' = "building" /\ attempts' = 0
                   ELSE /\ pc' = "sampling"
                        /\ attempts' = IF attempts < MaxAttempts
                                         THEN attempts + 1 ELSE attempts
  /\ UNCHANGED <<op, param, lang, termMap, chosen, correctAnswers,
                 possibleAnswers, baseSentences, answers, answerKeys, repaired,
                 interp, premise, derived, config, vocabulary, i18n>>

\* the rest of generateMultiQuiz, after the loop, and the catch block of GET
\* (values are bound with \E v \in {e} so that each is computed once)
MultiBuild ==
  /\ pc = "building"
  /\ \E t \in {table(lang, absent)} :
       IF throwsOn(t, premiseKinds(item) \cup (Range(allTypes) \ {"unknown"}))
         THEN /\ status' = 500
              /\ UNCHANGED <<correctAnswers, possibleAnswers, baseSentences, answers,
                             answerKeys, repaired>>
         ELSE
           \E expansion \in {expandCorrectAnswers(item)} :
           \E possible \in {mkPossibleAnswers(item, t, termMap, expansion)} :
           \E js1 \in answerDraws(rnd, Len(possible)) :
           \E shuffled \in {shuffleCopy(possible, js1).result} :
           \E ans \in {dedupeBySentence(shuffled, 1, <<>>)} :
           \E finalAnswers \in {slice6(ans)} :
           \E fin \in IF hasCorrect(finalAnswers)
                        THEN {finalAnswers}
                        ELSE {repair(ans, finalAnswers, js2, js3) :
                                js2 \in answerDraws(rnd,
                                          Len(SelectSeq(ans, LAMBDA a : a.isCorrect))),
                                js3 \in answerDraws(rnd, Len(finalAnswers))} :
             /\ correctAnswers' = expansion
             /\ possibleAnswers' = possible
             /\ baseSentences' = mkBaseSentences(t, item, termMap)
             /\ answers' = stripped(fin)
             /\ answerKeys' = [k \in 1..Len(fin) |->
                                 Stmt(fin[k].type, fin[k].subject, fin[k].object)]
             /\ repaired' = ~hasCorrect(finalAnswers)
             /\ status' = 200
  /\ pc' = "done"
  /\ UNCHANGED <<op, param, lang, item, termMap, chosen, attempts,
                 interp, premise, derived, config, vocabulary, i18n>>

\* the response has been returned; the next request starts from scratch
NextRequest ==
  /\ pc = "done"
  /\ pc' = "idle" /\ op' = "none" /\ param' = NoParam /\ lang' = "en" /\ status' = 0
  /\ item' = NoItem /\ termMap' = NoTermMap /\ chosen' = NoConclusion
  /\ correctAnswers' = <<>> /\ possibleAnswers' = <<>>
  /\ baseSentences' = <<>> /\ answers' = <<>> /\ answerKeys' = <<>>
  /\ repaired' = FALSE /\ attempts' = 0
  /\ UNCHANGED <<interp, premise, derived, config, vocabulary, i18n>>

Next ==
  \/ Render
  \/ Request
  \/ GET
  \/ GenerateQuizComponent
  \/ GenerateQuizRoute
  \/ MultiStart
  \/ MultiDraw
  \/ MultiBuild
  \/ NextRequest

Spec == Init /\ [][Next]_vars

(***************************************************************************)
(* Processes started with other data than the shipped files, or with a     *)
(* given random source.                                                    *)
(***************************************************************************)
\* a translation file lacks one sentence pattern
InitL10n ==
  /\ Idle /\ Loaded /\ NoSemantics /\ NoLookup
  /\ library = "small" /\ rnd = Free
  /\ \E p \in Patterns : absent = {p}

SpecL10n == InitL10n /\ [][Next]_vars

\* the library is one of the small ones
InitLibrary ==
  /\ Idle /\ Loaded /\ NoSemantics /\ NoLookup
  /\ library \in SmallLibraries /\ absent = {} /\ rnd = Free

\* the loop keeps running, and getRandomElement is fair: while the loop
\* runs, every template of the library is drawn again and again, the ones
\* isValid accepts among them
SpecLibrary ==
  /\ InitLibrary /\ [][Next]_vars
  /\ WF_vars(MultiDraw)
  /\ WF_vars(MultiDraw /\ isValid(item'))

\* the shuffles read a given source
InitSource ==
  /\ Idle /\ Loaded /\ NoSemantics /\ NoLookup
  /\ library = "small" /\ absent = {} /\ rnd \in Sources

SpecSource == InitSource /\ [][Next]_vars

\* a language file lists a term more than once
InitVocabulary ==
  /\ Idle /\ NoSemantics /\ NoLookup
  /\ library = "small" /\ absent = {} /\ rnd = Free
  /\ vocabulary \in RepeatedTerms

SpecVocabulary == InitVocabulary /\ [][Next]_vars

(***************************************************************************)
(* Set semantics of the quantifiers, and the derivation rules of the       *)
(* expander applied to one premise under an interpretation of X, Y, Z.     *)
(***************************************************************************)
Universe == 1..UniverseSize

\* All(A,B): every A is B; None(A,B): no A is B; Some(A,B): at least one A
\* is B; SomeNot(A,B): at least one A is not B
Holds(st, I) ==
  CASE st.type = "all" -> I[st.subject] \subseteq I[st.object]
    [] st.type = "none" -> I[st.subject] \cap I[st.object] = {}
    [] st.type = "some" -> I[st.subject] \cap I[st.object] # {}
    [] st.type = "some_none" -> I[st.subject] \ I[st.object] # {}
    [] OTHER -> TRUE

Statements == {c \in {Stmt(k, s, o) : k \in StatementTypes, s \in Variables, o \in Variables} :
                 c.subject # c.object}

InitSem ==
  /\ Idle /\ Loaded /\ NoLookup /\ Shipped
  /\ interp \in [Variables -> SUBSET Universe]
  /\ premise \in Statements
  /\ derived = <<>>

\* the body of "for (const stmt of item.statements)" for a premise that is
\* true under the interpretation
Derive ==
  /\ pc = "idle"
  /\ Holds(premise, interp)
  /\ derived' = contribution(premise)
  /\ pc' = "derived"
  /\ UNCHANGED <<op, param, lang, status, item, termMap, chosen, correctAnswers,
                 possibleAnswers, baseSentences, answers, answerKeys, repaired,
                 attempts, interp, premise, config, vocabulary, i18n>>

NextSem == Derive

SpecSem == InitSem /\ [][NextSem]_vars

(***************************************************************************)
(* Looking up one key in every pair of tables.                             *)
(***************************************************************************)
InitI18n ==
  /\ Idle /\ Loaded /\ NoSemantics /\ Shipped
  /\ ui \in [Languages -> Tables]
  /\ key \in Keys(MaxKeyLen)
  /\ translated = NoResult

\* a page calls useTranslations(lang)(key)
Translate ==
  /\ pc = "idle"
  /\ \E l \in Languages : lang' = l /\ translated' = useTranslations(ui, l, key)
  /\ pc' = "translated"
  /\ UNCHANGED <<op, param, status, item, termMap, chosen, correctAnswers,
                 possibleAnswers, baseSentences, answers, answerKeys, repaired,
                 attempts, interp, premise, derived, config, vocabulary, ui, key>>

NextI18n == Translate

SpecI18n == InitI18n /\ [][NextI18n]_vars

(***************************************************************************)
(* Properties.                                                             *)
(***************************************************************************)
SingleDone == pc = "done" /\ status = 200 /\ op \in {"component", "route"}
MultiDone == pc = "done" /\ status = 200 /\ op = "multi"

Reverse(c) == Stmt(c.type, c.object, c.subject)
NoDuplicates(seq) == \A i, j \in 1..Len(seq) : seq[i] = seq[j] => i = j
AllUnknown(seq) == \A i \in 1..Len(seq) : seq[i].type = "unknown"

\* C1: a single-answer response of either implementation has exactly 5
\* answers, exactly one of them correct, and its last answer is the unknown
\* statement rendered on the subject/object terms of the chosen conclusion.
Thm_C1_SingleShape ==
  SingleDone =>
    /\ chosen \in Range(item.correct)
    /\ Len(answers) = 5
    /\ Cardinality({i \in 1..Len(answers) : answers[i].isCorrect}) = 1
    /\ answerKeys[Len(answers)] = Stmt("unknown", chosen.subject, chosen.object)
    /\ answers[Len(answers)].sentence =
         render(templates[lang], "unknown", termMap[chosen.subject], termMap[chosen.object])

Wit_C1_SingleShape ==
  /\ SingleDone /\ op = "route"
  /\ chosen.type = "some_none"
  /\ Len(answers) = 5
  /\ answers[1].isCorrect
  /\ ~answers[5].isCorrect

\* C2: a multi-answer response has between 1 and 6 answers, each a defined
\* {sentence, isCorrect} record (never undefined), at least one of them correct.
Thm_C2_MultiShape ==
  MultiDone =>
    /\ Len(answers) \in 1..6
    /\ \A k \in 1..Len(answers) :
         /\ answerKeys[k].type \in StatementTypes
         /\ answers[k].sentence # <<>>
         /\ answers[k].isCorrect \in BOOLEAN
    /\ \E k \in 1..Len(answers) : answers[k].isCorrect

Wit_C2_Repaired ==
  /\ MultiDone /\ repaired
  /\ Cardinality({k \in 1..Len(answers) : answers[k].isCorrect}) = 1

\* C3: no answer of a multi-answer response restates a premise, neither as a
\* (type, subject, object) triple nor as a rendered sentence; this includes
\* the answer the repair step puts in.
Thm_C3_NoPremiseRestated ==
  MultiDone =>
    \A k \in 1..Len(answers) :
      /\ answerKeys[k] \notin baseKeysOf(item)
      /\ answers[k].sentence \notin Range(baseSentences)

Wit_C3_NearPremise ==
  /\ MultiDone /\ repaired
  /\ Reverse(answerKeys[Len(answers)]) \in baseKeysOf(item)

\* The per-premise contributions as the specification states them.
RuleSet(st) ==
  CASE st.type = "all" -> {Stmt("some", st.subject, st.object), Stmt("some", st.object, st.subject)}
    [] st.type = "some" -> {Stmt("some", st.object, st.subject)}
    [] st.type = "none" -> {Stmt("none", st.object, st.subject)}
    [] OTHER -> {}

\* C4: the expansion is, as a set, the canonical list united with the
\* per-premise contributions and nothing else; Barbara expands to
\* {All(X,Z), Some(X,Y), Some(Y,X), Some(Y,Z), Some(Z,Y)}.
Thm_C4_ExpansionSet ==
  /\ item # NoItem =>
       Range(expandCorrectAnswers(item)) =
         Range(item.correct) \cup RuleSet(item.statements[1]) \cup RuleSet(item.statements[2])
  /\ MultiDone => correctAnswers = expandCorrectAnswers(item)
  /\ (MultiDone /\ item = Barbara) =>
       Range(correctAnswers) =
         {Stmt("all", "X", "Z"), Stmt("some", "X", "Y"), Stmt("some", "Y", "X"),
          Stmt("some", "Y", "Z"), Stmt("some", "Z", "Y")}

Wit_C4_Barbara == MultiDone /\ item = Barbara /\ Len(correctAnswers) = 5

\* C5: the expansion has no two entries with the same triple, and expanding
\* the template whose canonical list is replaced by its expansion yields the
\* same set, again without duplicates.
Thm_C5_ExpandIdempotent ==
  item # NoItem =>
    LET once == expandCorrectAnswers(item)
        twice == expandCorrectAnswers([item EXCEPT !.correct = once])
    IN /\ NoDuplicates(once)
       /\ NoDuplicates(twice)
       /\ Range(twice) = Range(once)

Wit_C5_Derived ==
  /\ MultiDone
  /\ Len(correctAnswers) = Len(item.correct) + 4

\* C6: isValid is true exactly when the expansion has an entry whose kind is
\* not unknown; Ferio expands to {SomeNot(X,Z), Some(Y,X), None(Z,Y)} and is
\* valid.
Thm_C6_IsValid ==
  /\ item # NoItem =>
       (isValid(item) <=>
          /\ Len(expandCorrectAnswers(item)) > 0
          /\ \E c \in Range(expandCorrectAnswers(item)) : c.type # "unknown")
  /\ item = Ferio =>
       /\ Range(expandCorrectAnswers(item)) =
            {Stmt("some_none", "X", "Z"), Stmt("some", "Y", "X"), Stmt("none", "Z", "Y")}
       /\ isValid(item)

Wit_C6_Ferio == pc = "building" /\ item = Ferio

\* C7 as stated: the multi-answer generator never builds its answers from a
\* template whose canonical conclusions are all unknown.
Cex_C7_NoUnknownTemplate ==
  (pc = "building" \/ MultiDone) => ~AllUnknown(item.correct)

\* C7 amended: the loop rejects exactly the draws whose expansion is all
\* unknown, so the template the answers are built from has an expansion entry
\* that is not unknown; the converging template is accepted.
Thm_C7_RejectsAllUnknownExpansion ==
  /\ (pc = "building" \/ MultiDone) =>
       ~AllUnknown(expandCorrectAnswers(item))
  /\ (op = "multi" /\ pc = "sampling" /\ attempts > 0) =>
       AllUnknown(expandCorrectAnswers(item))
  /\ (op = "multi" /\ pc = "sampling" /\ attempts = 0) => item = NoItem

Wit_C7_Rejected ==
  /\ op = "multi" /\ pc = "sampling" /\ attempts > 0
  /\ AllUnknown(item.correct)
  /\ item.statements[1].type = "some_none"

\* C8: a candidate of the pool is labelled correct exactly when its triple is
\* in the expansion, or its kind is some and its reversed triple is in the
\* expansion; the reversed match counts for no other kind.
Thm_C8_Labelling ==
  MultiDone =>
    \A k \in 1..Len(possibleAnswers) :
      LET c == Stmt(possibleAnswers[k].type, possibleAnswers[k].subject,
                    possibleAnswers[k].object)
      IN possibleAnswers[k].isCorrect <=>
           \/ c \in Range(correctAnswers)
           \/ c.type = "some" /\ Reverse(c) \in Range(correctAnswers)

Wit_C8_ReversedSome ==
  /\ MultiDone
  /\ \E k \in 1..Len(possibleAnswers) :
       LET c == Stmt(possibleAnswers[k].type, possibleAnswers[k].subject,
                     possibleAnswers[k].object)
       IN /\ c.type = "some" /\ possibleAnswers[k].isCorrect
          /\ c \notin Range(correctAnswers)
          /\ Reverse(c) \in Range(item.correct)

\* C9 as stated: under every interpretation, empty sets included, a true
\* premise makes every conclusion derived from it true.
Cex_C9_TruthPreservedAlways ==
  pc = "derived" => \A k \in 1..Len(derived) : Holds(derived[k], interp)

\* C9 amended: under every interpretation in which the subject term of the
\* premise is a non-empty set, a true premise makes every conclusion derived
\* from it true.
Thm_C9_TruthPreservedNonEmpty ==
  (pc = "derived" /\ interp[premise.subject] # {}) =>
    \A k \in 1..Len(derived) : Holds(derived[k], interp)

Wit_C9_AllDerived ==
  /\ pc = "derived" /\ premise.type = "all"
  /\ interp[premise.subject] # {}
  /\ interp[premise.subject] # interp[premise.object]
  /\ Len(derived) = 2

\* C10: X, Y, Z are mapped to three pairwise distinct, non-empty terms, so
\* two different (type, subject, object) triples never render to the same
\* sentence, and every answer is the rendering of its own triple only.
Conclusions == {c \in {Stmt(k, s, o) : k \in QuantifierTypes, s \in Variables, o \in Variables} :
                  c.subject # c.object}

renderStmt(c) == render(templates[lang], c.type, termMap[c.subject], termMap[c.object])

Thm_C10_RoundTrip ==
  (pc = "done" /\ status = 200) =>
    /\ \A v, w \in Variables : termMap[v] = termMap[w] => v = w
    /\ \A v \in Variables : termMap[v] \in Range(termsMap[lang]) /\ termMap[v] # ""
    /\ Cardinality({renderStmt(c) : c \in Conclusions}) = Cardinality(Conclusions)
    /\ \A k \in 1..Len(answers) : renderStmt(answerKeys[k]) = answers[k].sentence
    /\ \A k \in 1..Len(baseSentences) : renderStmt(item.statements[k]) = baseSentences[k]

Wit_C10_Shuffled ==
  /\ MultiDone
  /\ termMap["X"] = termsMap[lang][3]
  /\ termMap["Z"] = termsMap[lang][2]

\* C11: a GET whose lang parameter is present and is neither de nor en is
\* answered with status 400 and the generator is not called for it; a GET
\* with a configured code, or with no lang parameter, gets a quiz with
\* status 200 (in the language asked for, en when none was).
Cex_C11_InvalidLangRejected ==
  /\ [][pc = "received" =>
          IF param # NoParam /\ param[1] \notin {"de", "en"}
            THEN pc' = "done" /\ status' = 400 /\ item' = NoItem /\ answers' = <<>>
            ELSE pc' = "requested" /\ lang' = orElse(param, "en")]_vars
  /\ []((pc = "done" /\ status # 400) => (status = 200 /\ Len(answers) > 0))

Wit_C11_Rejected ==
  /\ pc = "done" /\ op = "multi" /\ status = 400
  /\ param = <<"fr">> /\ item = NoItem /\ answers = <<>>

\* C12: when the translation table of the language lacks a sentence pattern,
\* generation still returns a quiz: the response has status 200, two
\* premises and at least one answer, none of them missing.
Cex_C12_MissingPatternFallback ==
  (pc = "done" /\ status # 400) =>
    /\ status = 200
    /\ Len(baseSentences) = 2
    /\ Len(answers) > 0

Wit_C12_Thrown ==
  /\ pc = "done" /\ op = "multi" /\ status = 500
  /\ absent = {<<lang, "some">>}
  /\ "some" \notin premiseKinds(item)

\* C13 as stated: t(key) is the string at the key's path in the requested
\* table when there is one, else the string at that path in the default
\* table when there is one, else the key.
Cex_C13_DefaultWheneverNoString ==
  pc = "translated" =>
    translated =
      IF kindAt(ui[lang], key) = "string" THEN StringOf(lang, key)
      ELSE IF kindAt(ui[defaultLang], key) = "string" THEN StringOf(defaultLang, key)
      ELSE KeyItself(key)

\* C13 amended: t(key) is the string at the key's path in the requested
\* table when there is one; when the path does not exist in the requested
\* table, the string at that path in the default table when there is one;
\* in every other case, a path that leads to a value that is not a string in
\* the requested table included, the key.  The result is always the key or a
\* stored string.
Thm_C13_DefaultOnlyWhenMissing ==
  pc = "translated" =>
    /\ translated =
         IF kindAt(ui[lang], key) = "string" THEN StringOf(lang, key)
         ELSE IF kindAt(ui[lang], key) = "undefined"
                 /\ kindAt(ui[defaultLang], key) = "string"
           THEN StringOf(defaultLang, key)
         ELSE KeyItself(key)
    /\ translated.from \in Languages \cup {"key"}

Wit_C13_FromDefault ==
  /\ pc = "translated" /\ lang = "de"
  /\ kindAt(ui["de"], <<"a">>) = "string"
  /\ key = <<"a", "b">>
  /\ translated = StringOf("en", <<"a", "b">>)

HasValid(lib) ==
  \E it \in data(lib) :
    \E c \in Range(expandCorrectAnswers(it)) : c.type # "unknown"

\* C14: when no template of the library passes isValid, or the library is
\* empty, the multi-answer generator leaves its resampling loop and the
\* request ends.
Cex_C14_ResamplingGivesUp ==
  (pc = "sampling" /\ ~HasValid(library)) ~> (pc = "done")

Wit_C14_EmptyThrows ==
  /\ pc = "done" /\ op = "multi" /\ status = 500 /\ library = "empty"

\* the position the last of n elements has after the shuffle with draws js
movedTo(n, js) ==
  CHOOSE k \in 1..n : FisherYates([i \in 1..n |-> i], n - 1, js)[k] = n

\* C17: after a repair the delivered answers are the reshuffled ones, so the
\* correct answer that was put in is where the shuffle moves the last
\* element.
Cex_C17_RepairReshuffles ==
  (MultiDone /\ repaired) =>
    answers[movedTo(Len(answers), StreamDraw(Len(answers), rnd.r1, rnd.r2))].isCorrect

Wit_C17_RepairedLast ==
  /\ MultiDone /\ repaired
  /\ movedTo(Len(answers), StreamDraw(Len(answers), rnd.r1, rnd.r2)) # Len(answers)
  /\ answers[Len(answers)].isCorrect

\* C18: in all three generators X, Y, Z are the first three entries of the
\* shuffled vocabulary.
Cex_C18_TermsShuffled ==
  (pc = "done" /\ status = 200) =>
    termMap = mkTermMap(FisherYates(termsMap[lang], Len(termsMap[lang]) - 1, rnd.terms))

Wit_C18_RouteUnshuffled ==
  /\ SingleDone /\ op = "route"
  /\ rnd.terms = <<1, 0>>
  /\ termMap = mkTermMap(termsMap[lang])

\* C19: when the library has a template that passes isValid and the pick is
\* fair, the resampling loop is left, with a template that passes isValid.
Thm_C19_FairSamplingTerminates ==
  (pc = "sampling" /\ HasValid(library)) ~> (pc = "building" /\ isValid(item))

Wit_C19_Resampled ==
  /\ pc = "sampling" /\ attempts > 0
  /\ HasValid(library) /\ ~isValid(item)

\* the pattern the library tests count a template under
patternOf(it) ==
  LET stmt1 == it.statements[1]
      stmt2 == it.statements[2]
  IN IF stmt1.object = stmt2.subject THEN "chain"
     ELSE IF stmt1.subject = stmt2.subject THEN "common-subject"
     ELSE IF stmt1.object = stmt2.object THEN "common-object"
     ELSE "none"

Thm_C20_SingleStructure ==
  /\ SingleDone =>
       /\ Len(answers) = 5 /\ Len(answerKeys) = 5
       /\ {answerKeys[k].type : k \in 1..5} = QuantifierTypes
       /\ \A k \in 1..5 :
            /\ answerKeys[k].subject = chosen.subject
            /\ answerKeys[k].object = chosen.object
            /\ answers[k].sentence =
                 render(templates[lang], answerKeys[k].type,
                        termMap[chosen.subject], termMap[chosen.object])
            /\ answers[k].isCorrect <=> (answerKeys[k].type = chosen.type)
       /\ \A k \in 1..4 : answerKeys[k].type # "unknown"
       /\ \E js \in AllDraws(4) :
            FisherYates(SubSeq(allTypes, 1, 4), 3, js) = [k \in 1..4 |-> answerKeys[k].type]
  /\ pc = "requested" =>
       Cardinality({FisherYates(SubSeq(allTypes, 1, 4), 3, js) : js \in AllDraws(4)}) = 24

Wit_C20_Reordered ==
  /\ SingleDone /\ op = "component"
  /\ answerKeys[1].type # "all"
  /\ answerKeys[4].type # "some_none"
  /\ ~answers[1].isCorrect
  /\ chosen.type = "none"

\* C21: the single-answer generators have no rejection loop: every template
\* of the library, those whose canonical conclusions are all unknown
\* included, can be the template of a single-answer response; when the
\* chosen conclusion is unknown, the answer marked correct is the fifth, the
\* unknown one, and the four shuffled answers are marked incorrect.
Thm_C21_SingleNoRejection ==
  /\ op \in {"component", "route"} => (pc # "sampling" /\ pc # "building" /\ attempts = 0)
  /\ (pc = "requested" /\ op \in {"component", "route"}) =>
       \A it \in data(library) :
         ENABLED (item' = it /\ status' = 200 /\ pc' = "done"
                  /\ (GenerateQuizComponent \/ GenerateQuizRoute))
  /\ (SingleDone /\ chosen.type = "unknown") =>
       /\ answerKeys[5].type = "unknown"
       /\ answers[5].isCorrect
       /\ \A k \in 1..4 : ~answers[k].isCorrect

Wit_C21_UnknownTemplate ==
  /\ SingleDone /\ op = "component"
  /\ item = SomeNotChain /\ ~isValid(item)
  /\ chosen.type = "unknown"
  /\ answers[5].isCorrect

\* C22: generation has no persistent effect: the template library, the
\* vocabulary and the pattern tables are at all times what the module
\* loaded (the shuffles work on copies), and whenever no request is in
\* progress the process is in the state it was in before its first request,
\* so a request can return what the first one could.
Thm_C22_NoPersistentEffect ==
  /\ Loaded /\ Shipped
  /\ pc = "idle" => Init

Wit_C22_ShuffledCopy ==
  /\ SingleDone /\ op = "component" /\ lang = "de"
  /\ termMap["X"] = termsMap[lang][2]
  /\ termMap["Y"] = termsMap[lang][3]
  /\ vocabulary[lang] = termsMap[lang]

\* the response of the request, and the responses the two single-answer
\* implementations return for the template and the conclusion of the
\* request under the given random source
delivered == [baseSentences |-> baseSentences, answers |-> answers]

ofComponent ==
  componentGenerateQuiz(table(lang, absent), vocabulary[lang], item, chosen, rnd.terms,
                        StreamDraw(Len(allTypes) - 1, rnd.r1, rnd.r2)).response

ofRoute ==
  routeGenerateQuiz(table(lang, absent), vocabulary[lang], item, chosen, rnd.terms,
                    StreamDraw(Len(allTypes) - 1, rnd.r1, rnd.r2)).response

\* C23: the two single-answer implementations are equivalent: with the same
\* library, tables and random source, what the component returns is what
\* the route returns for the same template and conclusion, and the other
\* way round.
Cex_C23_SingleEquivalent ==
  /\ (SingleDone /\ op = "component") => delivered = ofRoute
  /\ (SingleDone /\ op = "route") => delivered = ofComponent

Wit_C23_RouteDiffers ==
  /\ SingleDone /\ op = "route" /\ item = Ferio
  /\ delivered = ofRoute
  /\ delivered.baseSentences # ofComponent.baseSentences
  /\ delivered.answers # ofComponent.answers

\* C24: no two answers of a multi-answer response have the same sentence,
\* also when terms repeat and candidates render alike, and also after the
\* repair step has put its candidate in.
Thm_C24_SentencesDistinct ==
  MultiDone =>
    \A i, j \in 1..Len(answers) : answers[i].sentence = answers[j].sentence => i = j

Wit_C24_RepairedAmongAlike ==
  /\ MultiDone /\ repaired
  /\ termMap["X"] = termMap["Y"] /\ termMap["Y"] # termMap["Z"]
  /\ answers[Len(answers)].isCorrect
  /\ Len(possibleAnswers) >
       Cardinality({possibleAnswers[k].sentence : k \in 1..Len(possibleAnswers)})

\* C25: for a template with two different premises, rendered on three
\* different terms with a different pattern for each kind, the candidate
\* pool holds exactly the 22 candidates that are the 4 kinds other than
\* unknown on the 6 ordered pairs of different variables, less the 2
\* premises, and the response has exactly 6 answers, whether the repair
\* step ran or not.
Thm_C25_ExactSize ==
  (/\ MultiDone
   /\ item.statements[1] # item.statements[2]
   /\ Cardinality({termMap[v] : v \in Variables}) = Cardinality(Variables)
   /\ Cardinality({templates[lang][k] : k \in StatementTypes}) = Cardinality(StatementTypes))
  => /\ Len(possibleAnswers) = 22
     /\ {Stmt(possibleAnswers[k].type, possibleAnswers[k].subject, possibleAnswers[k].object) :
           k \in 1..Len(possibleAnswers)} = Statements \ baseKeysOf(item)
     /\ Cardinality(Statements \ baseKeysOf(item)) = 22
     /\ repaired => Len(answers) = 6
     /\ ~repaired => Len(answers) = 6

Wit_C25_SixAfterRepair ==
  /\ MultiDone /\ repaired
  /\ item.statements[1] # item.statements[2]
  /\ Len(possibleAnswers) = 22
  /\ Len(answers) = 6
  /\ ~answers[1].isCorrect

====
